---- MODULE Spec2Model ----
(***************************************************************************)
(* compiledtrees/code_gen.py: generation of C++ source for decision-tree   *)
(* ensembles (CodeGenerator, code_gen_tree, code_gen_ensemble), the        *)
(* behaviour of the generated evaluators, and the compile/link driver      *)
(* (compile_code_to_object).                                               *)
(*                                                                         *)
(* Numbers.  Reals are modelled on an integer grid: every integer is a     *)
(* double, the even integers are the doubles that are also exactly         *)
(* representable in single precision.  Python's "{0}".format(x) is the     *)
(* decimal text of x; a C++ literal with the suffix f denotes the nearest  *)
(* single-precision value (ties to even), a literal without suffix the     *)
(* double itself.                                                          *)
(***************************************************************************)
EXTENDS Integers, Sequences, FiniteSets, TLC

VARIABLES
    cfg,          \* module-level CXX_COMPILER, delete_files, OPENMP_SUPPORT
    call,         \* code generation: the function called and its scalar arguments
    trees,        \* the trees handed to the generator
    gens,         \* the CodeGenerator objects created so far
    callstack,    \* Python call stack of the running generator
    tree_files,   \* code_gen_ensemble's local tree_files
    loop_i,       \* code_gen_ensemble's local variable i
    outcome,      \* what the generator returned or raised
    n_jobs,       \* compile_code_to_object: its worker count
    bpc,          \* its position: idle, parallel, linking, returned, raised
    src,          \* the handles of the source units in files
    jobs,         \* the _compile call of each source unit
    temps,        \* the temporary files it and _compile created
    link,         \* the link invocation
    outs,         \* the generated combiner at run time: funcs[i](f) of each tree
    omp_jobs,     \* its argument n_jobs
    rpc,          \* its position: idle, entry, loop, done
    result,       \* its accumulator
    team,         \* the threads of the loop: iterations, private accumulator
    evaluated     \* how often funcs[i] has been called

genVars == <<call, trees, gens, callstack, tree_files, loop_i, outcome>>
buildVars == <<n_jobs, bpc, src, jobs, temps, link>>
runVars == <<outs, omp_jobs, rpc, result, team, evaluated>>
vars == <<cfg, genVars, buildVars, runVars>>

(***************************************************************************)
(* Bounds of the model.                                                    *)
(***************************************************************************)
MaxNodes == 3
MaxFeature == 1
MaxTrees == 2
MaxJobs == 2
MaxThreads == 2
MaxRunTrees == 3

None == "None"
Unbound == -1

Min(a, b) == IF a <= b THEN a ELSE b
Last(s) == s[Len(s)]
ButLast(s) == SubSeq(s, 1, Len(s) - 1)

(***************************************************************************)
(* Module import: lines 16-31.                                             *)
(***************************************************************************)
Config(s, c, o) ==
    [system |-> s, CXX_COMPILER |-> c, delete_files |-> (s # "Windows"),
     OPENMP_SUPPORT |-> o]

\* Windows takes CXX from the environment or None; elsewhere it is the
\* configured compiler, which may be missing; on Darwin the import runs the
\* compiler, so it exists, and clang has no OpenMP
ModuleConfigs ==
    {Config("Windows", c, TRUE) : c \in {None, "cxx"}} \cup
    {Config("Linux", c, TRUE) : c \in {None, "cxx"}} \cup
    {Config("Darwin", "cxx", o) : o \in BOOLEAN}

EVALUATE_FN_NAME == "evaluate"

\* "{name}_{index}".format(name=EVALUATE_FN_NAME, index=i); index -1: the bare name
FnName(i) == [base |-> EVALUATE_FN_NAME, index |-> i]

(***************************************************************************)
(* Number formatting.                                                      *)
(***************************************************************************)
\* nearest single-precision value of a double, ties to even
RoundFloat(x) ==
    IF x % 2 = 0 THEN x
    ELSE IF ((x - 1) \div 2) % 2 = 0 THEN x - 1 ELSE x + 1

\* "{0}".format(x) for a float x: its decimal text
FormatReal(x) == [num |-> x]

\* "{threshold}f": the text of the threshold followed by the suffix f
FloatLiteral(x) == [num |-> FormatReal(x).num, suffix |-> "f"]

\* "{0}" with no suffix: a double literal
DoubleLiteral(x) == [num |-> FormatReal(x).num, suffix |-> ""]

\* the value a C++ compiler gives a literal
LiteralValue(lit) == IF lit.suffix = "f" THEN RoundFloat(lit.num) ELSE lit.num

NoLit == [num |-> 0, suffix |-> ""]
NoName == [base |-> "", index |-> -1]

(***************************************************************************)
(* Trees: parallel node arrays, node ids from 0.  A tree is the sequence   *)
(* of its node rows; array[node] follows Python indexing, where a negative *)
(* index counts from the end.                                              *)
(***************************************************************************)
Features == 0 .. MaxFeature
Thresholds == {2, 3}
LeafValues == {<<1>>, <<4>>, <<1, 4>>}
TREE_LEAF == -1

PyIndex(n, i) == IF i < 0 THEN n + i ELSE i

children_left(tree, node) == tree[PyIndex(Len(tree), node) + 1].left
children_right(tree, node) == tree[PyIndex(Len(tree), node) + 1].right
feature(tree, node) == tree[PyIndex(Len(tree), node) + 1].feature
threshold(tree, node) == tree[PyIndex(Len(tree), node) + 1].threshold
value(tree, node) == tree[PyIndex(Len(tree), node) + 1].value

LeafRow(v) ==
    [left |-> TREE_LEAF, right |-> TREE_LEAF, feature |-> -2, threshold |-> -2,
     value |-> v]

SplitRow(l, r, ft, th) ==
    [left |-> l, right |-> r, feature |-> ft, threshold |-> th, value |-> <<0>>]

\* the rows node i of an n-node tree may hold: a leaf, or a split whose
\* children are later nodes (the right child may be the sentinel)
NodeRows(i, n) ==
    {LeafRow(v) : v \in LeafValues} \cup
    {SplitRow(l, r, ft, th) :
        l \in (i + 1) .. (n - 1), r \in ((i + 1) .. (n - 1)) \cup {TREE_LEAF},
        ft \in Features, th \in Thresholds}

RECURSIVE RowSeqs(_, _)
RowSeqs(i, n) ==
    IF i = n THEN {<<>>}
    ELSE {<<x>> \o s : x \in NodeRows(i, n), s \in RowSeqs(i + 1, n)}

RECURSIVE Reach(_, _)
\* the node ids below node, following the child links that are present
Reach(tree, node) ==
    IF node = TREE_LEAF THEN {}
    ELSE IF children_left(tree, node) = TREE_LEAF THEN {node}
    ELSE {node} \cup Reach(tree, children_left(tree, node))
                \cup Reach(tree, children_right(tree, node))

RECURSIVE Visits(_, _)
\* how many nodes a walk below node meets, with repetition
Visits(tree, node) ==
    IF node = TREE_LEAF THEN 0
    ELSE IF children_left(tree, node) = TREE_LEAF THEN 1
    ELSE 1 + Visits(tree, children_left(tree, node))
           + Visits(tree, children_right(tree, node))

\* every row is a node of the tree, met once from the root
OneTree(tree) ==
    /\ Reach(tree, 0) = 0 .. (Len(tree) - 1)
    /\ Visits(tree, 0) = Len(tree)

\* the node arrays handed in
Trees == UNION {{t \in RowSeqs(0, n) : OneTree(t)} : n \in 1 .. MaxNodes}

\* the spec's invariant on a tree: a non-leaf has two children, a leaf one
\* scalar value, every node is reached exactly once
NoMissingChild(tree) ==
    \A k \in 0 .. (Len(tree) - 1) :
        children_left(tree, k) # TREE_LEAF => children_right(tree, k) # TREE_LEAF

ScalarLeaves(tree) ==
    \A k \in 0 .. (Len(tree) - 1) :
        children_left(tree, k) = TREE_LEAF => Len(value(tree, k)) = 1

WellFormed(tree) ==
    /\ NoMissingChild(tree)
    /\ ScalarLeaves(tree)
    /\ OneTree(tree)

(***************************************************************************)
(* CodeGenerator: lines 37-60.  The file is the sequence of the chunks     *)
(* written, each "  " * indent + line + newline.                           *)
(***************************************************************************)
Chunk(ind, kind, name, x, lit, names) ==
    [ind |-> ind, kind |-> kind, name |-> name, x |-> x, lit |-> lit,
     names |-> names]

Text(kind) == Chunk(0, kind, NoName, 0, NoLit, <<>>)

\* CodeGenerator.__init__
CodeGenerator ==
    [indent |-> 0, file |-> <<>>, delete |-> cfg.delete_files, flushed |-> FALSE]

\* CodeGenerator.write: the line lands at the current indentation
write(g, line) ==
    [g EXCEPT !.file = Append(@, [line EXCEPT !.ind = g.indent]),
              !.flushed = FALSE]

\* CodeGenerator.bracketed up to its yield
bracketed_enter(g, preamble) ==
    [write(g, preamble) EXCEPT !.indent = @ + 1]

\* the postamble written without leaving the block's depth
bracketed_exit_NoDedent(g, postamble) == write(g, postamble)

\* CodeGenerator.bracketed after its yield
bracketed_exit(g, postamble) ==
    write([g EXCEPT !.indent = @ - 1], postamble)

\* CodeGenerator.file
file(g) == [g EXCEPT !.flushed = TRUE]

(***************************************************************************)
(* Call stack.  A frame holds the function, its position, the generator it *)
(* writes to, the node (recur) and the postambles of the with-blocks it    *)
(* has open.                                                               *)
(***************************************************************************)
Frame(fn, pc, gen, node) ==
    [fn |-> fn, pc |-> pc, gen |-> gen, node |-> node, withs |-> <<>>, tree |-> 0,
     name |-> FnName(-1)]

Top == Last(callstack)
Running == outcome.status = "running" /\ callstack # <<>>
At(fn, pc) == Running /\ Top.fn = fn /\ Top.pc = pc

SetTop(f) == [callstack EXCEPT ![Len(callstack)] = f]

\* an exception leaves every frame: no with-block writes its postamble
Raise(err) ==
    /\ outcome' = [status |-> "raised", error |-> err, files |-> <<>>]
    /\ callstack' = <<>>

TheTree == trees[Top.tree]

(***************************************************************************)
(* code_gen_tree: lines 63-107.                                            *)
(***************************************************************************)
\* lines 83-84 and 101: create the generator if none was given, open extern "C"
TreeOpenExtern ==
    /\ At("code_gen_tree", "start")
    /\ LET g == IF Top.gen = 0 THEN Len(gens) + 1 ELSE Top.gen
           gs == IF Top.gen = 0 THEN Append(gens, CodeGenerator) ELSE gens
       IN  IF gs[g].indent >= 0
           THEN /\ gens' = [gs EXCEPT ![g] = bracketed_enter(@, Text("extern_open"))]
                /\ callstack' = SetTop([Top EXCEPT !.gen = g, !.pc = "fn_decl",
                                                   !.withs = Append(@, Text("close"))])
                /\ UNCHANGED outcome
           ELSE /\ gens' = gs
                /\ Raise("AssertionError in bracketed")
    /\ UNCHANGED <<cfg, call, trees, tree_files, loop_i, buildVars, runVars>>

\* lines 102-106: open the function and call recur(0)
TreeOpenFn ==
    /\ At("code_gen_tree", "fn_decl")
    /\ IF gens[Top.gen].indent >= 0
       THEN /\ gens' = [gens EXCEPT ![Top.gen] =
                    bracketed_enter(@, [Text("fn_open") EXCEPT !.name = Top.name])]
            /\ callstack' =
                   Append(SetTop([Top EXCEPT !.pc = "fn_exit",
                                             !.withs = Append(@, Text("close"))]),
                          [Frame("recur", "start", Top.gen, 0) EXCEPT !.tree = Top.tree])
            /\ UNCHANGED outcome
       ELSE /\ Raise("AssertionError in bracketed")
            /\ UNCHANGED gens
    /\ UNCHANGED <<cfg, call, trees, tree_files, loop_i, buildVars, runVars>>

\* lines 87-90: a leaf writes its return statement and returns
RecurLeaf ==
    /\ At("recur", "start")
    /\ children_left(TheTree, Top.node) = TREE_LEAF
    /\ IF Len(value(TheTree, Top.node)) = 1
       THEN /\ gens' = [gens EXCEPT ![Top.gen] =
                    write(@, [Text("return") EXCEPT
                                 !.lit = DoubleLiteral(value(TheTree, Top.node)[1])])]
            /\ callstack' = ButLast(callstack)
            /\ UNCHANGED outcome
       ELSE /\ Raise("AssertionError on value size")
            /\ UNCHANGED gens
    /\ UNCHANGED <<cfg, call, trees, tree_files, loop_i, buildVars, runVars>>

\* lines 92-96: a split opens its if-block and recurs into the left child
RecurOpenIf ==
    /\ At("recur", "start")
    /\ children_left(TheTree, Top.node) # TREE_LEAF
    /\ IF gens[Top.gen].indent >= 0
       THEN /\ gens' = [gens EXCEPT ![Top.gen] =
                    bracketed_enter(@, [Text("if_open") EXCEPT
                        !.x = feature(TheTree, Top.node),
                        !.lit = FloatLiteral(threshold(TheTree, Top.node))])]
            /\ callstack' =
                   Append(SetTop([Top EXCEPT !.pc = "if_exit",
                                             !.withs = Append(@, Text("close"))]),
                          [Frame("recur", "start", Top.gen,
                                 children_left(TheTree, Top.node))
                              EXCEPT !.tree = Top.tree])
            /\ UNCHANGED outcome
       ELSE /\ Raise("AssertionError in bracketed")
            /\ UNCHANGED gens
    /\ UNCHANGED <<cfg, call, trees, tree_files, loop_i, buildVars, runVars>>

\* line 95, leaving the with-block: the if-block is closed
RecurCloseIf ==
    /\ At("recur", "if_exit")
    /\ gens' = [gens EXCEPT ![Top.gen] = bracketed_exit(@, Last(Top.withs))]
    /\ callstack' = SetTop([Top EXCEPT !.pc = "else", !.withs = ButLast(@)])
    /\ UNCHANGED <<cfg, call, trees, tree_files, loop_i, outcome, buildVars, runVars>>

\* lines 98-99: the else-block is opened, recur into the right child
RecurOpenElse ==
    /\ At("recur", "else")
    /\ IF gens[Top.gen].indent >= 0
       THEN /\ gens' = [gens EXCEPT ![Top.gen] =
                    bracketed_enter(@, Text("else_open"))]
            /\ callstack' =
                   Append(SetTop([Top EXCEPT !.pc = "else_exit",
                                             !.withs = Append(@, Text("close"))]),
                          [Frame("recur", "start", Top.gen,
                                 children_right(TheTree, Top.node))
                              EXCEPT !.tree = Top.tree])
            /\ UNCHANGED outcome
       ELSE /\ Raise("AssertionError in bracketed")
            /\ UNCHANGED gens
    /\ UNCHANGED <<cfg, call, trees, tree_files, loop_i, buildVars, runVars>>

\* line 98, leaving the with-block: the else-block is closed, recur returns
RecurCloseElse ==
    /\ At("recur", "else_exit")
    /\ gens' = [gens EXCEPT ![Top.gen] = bracketed_exit(@, Last(Top.withs))]
    /\ callstack' = ButLast(callstack)
    /\ UNCHANGED <<cfg, call, trees, tree_files, loop_i, outcome, buildVars, runVars>>

\* line 105, leaving the with-block: the function is closed
TreeCloseFn ==
    /\ At("code_gen_tree", "fn_exit")
    /\ gens' = [gens EXCEPT ![Top.gen] = bracketed_exit(@, Last(Top.withs))]
    /\ callstack' = SetTop([Top EXCEPT !.pc = "extern_exit", !.withs = ButLast(@)])
    /\ UNCHANGED <<cfg, call, trees, tree_files, loop_i, outcome, buildVars, runVars>>

\* lines 101 and 107: extern "C" is closed and the flushed file returned, to
\* the caller's tree_files (line 173) or as the result of the call
TreeReturn ==
    /\ At("code_gen_tree", "extern_exit")
    /\ gens' = [gens EXCEPT ![Top.gen] = file(bracketed_exit(@, Last(Top.withs)))]
    /\ callstack' = ButLast(callstack)
    /\ IF Len(callstack) = 1
       THEN /\ outcome' = [status |-> "returned", error |-> "", files |-> <<Top.gen>>]
            /\ UNCHANGED tree_files
       ELSE /\ tree_files' = Append(tree_files, Top.gen)
            /\ UNCHANGED outcome
    /\ UNCHANGED <<cfg, call, trees, loop_i, buildVars, runVars>>

(***************************************************************************)
(* code_gen_ensemble: lines 120-198, with _gen_tree: lines 110-117.        *)
(***************************************************************************)
\* lines 170-171: the combiner's generator
EnsembleStart ==
    /\ At("code_gen_ensemble", "start")
    /\ gens' = Append(gens, CodeGenerator)
    /\ callstack' = SetTop([Top EXCEPT !.gen = Len(gens) + 1, !.pc = "trees"])
    /\ UNCHANGED <<cfg, call, trees, tree_files, loop_i, outcome, buildVars, runVars>>

\* line 173, one element: _gen_tree(i, tree) names the function, makes a
\* generator of its own and calls code_gen_tree
EnsembleGenTree ==
    /\ At("code_gen_ensemble", "trees")
    /\ Top.node < Len(trees)
    /\ gens' = Append(gens, CodeGenerator)
    /\ callstack' =
           Append(SetTop([Top EXCEPT !.node = @ + 1]),
                  [Frame("code_gen_tree", "start", Len(gens) + 1, 0)
                      EXCEPT !.tree = Top.node + 1, !.name = FnName(Top.node)])
    /\ UNCHANGED <<cfg, call, trees, tree_files, loop_i, outcome, buildVars, runVars>>

\* the include written whatever the toolchain supports
IncludeOmp_Always(g) == write(g, Text("include_omp"))

\* lines 174-175: the include, under OPENMP_SUPPORT
IncludeOmp(g) ==
    IF cfg.OPENMP_SUPPORT THEN write(g, Text("include_omp")) ELSE g

\* lines 174-177: the include and extern "C"
EnsembleHeader ==
    /\ At("code_gen_ensemble", "trees")
    /\ Top.node = Len(trees)
    /\ LET g == IncludeOmp(gens[Top.gen])
       IN  IF g.indent >= 0
           THEN /\ gens' = [gens EXCEPT ![Top.gen] =
                        bracketed_enter(g, Text("extern_open"))]
                /\ callstack' = SetTop([Top EXCEPT !.pc = "decls", !.node = 0,
                                                   !.withs = Append(@, Text("close"))])
                /\ UNCHANGED outcome
           ELSE /\ gens' = [gens EXCEPT ![Top.gen] = g]
                /\ Raise("AssertionError in bracketed")
    /\ UNCHANGED <<cfg, call, trees, tree_files, loop_i, buildVars, runVars>>

\* lines 179-181, one iteration: the declaration of tree i's function
EnsembleDeclare ==
    /\ At("code_gen_ensemble", "decls")
    /\ Top.node < Len(trees)
    /\ loop_i' = Top.node
    /\ gens' = [gens EXCEPT ![Top.gen] =
           write(@, [Text("declare") EXCEPT !.name = FnName(Top.node)])]
    /\ callstack' = SetTop([Top EXCEPT !.node = @ + 1])
    /\ UNCHANGED <<cfg, call, trees, tree_files, outcome, buildVars, runVars>>

\* lines 182-185: the table of function pointers and the combiner's header
EnsembleTable ==
    /\ At("code_gen_ensemble", "decls")
    /\ Top.node = Len(trees)
    /\ LET g == write(gens[Top.gen],
                      [Text("funcs") EXCEPT
                          !.names = [k \in 1 .. Len(trees) |-> FnName(k - 1)],
                          !.x = Len(trees)])
       IN  IF g.indent >= 0
           THEN /\ gens' = [gens EXCEPT ![Top.gen] =
                        bracketed_enter(g, [Text("fn_open") EXCEPT
                                               !.name = FnName(-1)])]
                /\ callstack' = SetTop([Top EXCEPT !.pc = "body",
                                                   !.withs = Append(@, Text("close"))])
                /\ UNCHANGED outcome
           ELSE /\ gens' = [gens EXCEPT ![Top.gen] = g]
                /\ Raise("AssertionError in bracketed")
    /\ UNCHANGED <<cfg, call, trees, tree_files, loop_i, buildVars, runVars>>

\* lines 188-191: the accumulator, the pragma, and the loop's opening
EnsembleLoopOpen ==
    /\ At("code_gen_ensemble", "body")
    /\ LET g1 == write(gens[Top.gen],
                       [Text("result_init") EXCEPT
                           !.lit = DoubleLiteral(call.initial_value)])
           g2 == write(g1, Text("int_i"))
           g3 == write(g2, Text("pragma_omp"))
       IN  IF g3.indent >= 0
           THEN /\ gens' = [gens EXCEPT ![Top.gen] =
                        bracketed_enter(g3, [Text("for_open") EXCEPT
                                                !.x = Len(trees)])]
                /\ callstack' = SetTop([Top EXCEPT !.pc = "increment",
                                                   !.withs = Append(@, Text("close"))])
                /\ UNCHANGED outcome
           ELSE /\ gens' = [gens EXCEPT ![Top.gen] = g3]
                /\ Raise("AssertionError in bracketed")
    /\ UNCHANGED <<cfg, call, trees, tree_files, loop_i, buildVars, runVars>>

\* lines 192-196: the loop body; format() is handed index=i, the variable of
\* the loop of line 179
EnsembleIncrement ==
    /\ At("code_gen_ensemble", "increment")
    /\ IF loop_i = Unbound
       THEN /\ Raise("UnboundLocalError")
            /\ UNCHANGED gens
       ELSE /\ gens' = [gens EXCEPT ![Top.gen] =
                    write(@, [Text("increment") EXCEPT
                                 !.lit = DoubleLiteral(call.individual_learner_weight)])]
            /\ callstack' = SetTop([Top EXCEPT !.pc = "loop_exit"])
            /\ UNCHANGED outcome
    /\ UNCHANGED <<cfg, call, trees, tree_files, loop_i, buildVars, runVars>>

\* lines 191 and 197: the loop is closed, the accumulator returned
EnsembleLoopClose ==
    /\ At("code_gen_ensemble", "loop_exit")
    /\ gens' = [gens EXCEPT ![Top.gen] =
           write(bracketed_exit(@, Last(Top.withs)), Text("return_result"))]
    /\ callstack' = SetTop([Top EXCEPT !.pc = "fn_exit", !.withs = ButLast(@)])
    /\ UNCHANGED <<cfg, call, trees, tree_files, loop_i, outcome, buildVars, runVars>>

\* line 185, leaving the with-block: the combiner is closed
EnsembleCloseFn ==
    /\ At("code_gen_ensemble", "fn_exit")
    /\ gens' = [gens EXCEPT ![Top.gen] = bracketed_exit(@, Last(Top.withs))]
    /\ callstack' = SetTop([Top EXCEPT !.pc = "extern_exit", !.withs = ButLast(@)])
    /\ UNCHANGED <<cfg, call, trees, tree_files, loop_i, outcome, buildVars, runVars>>

\* lines 177 and 198: extern "C" is closed; tree_files + [gen.file]
EnsembleReturn ==
    /\ At("code_gen_ensemble", "extern_exit")
    /\ gens' = [gens EXCEPT ![Top.gen] = file(bracketed_exit(@, Last(Top.withs)))]
    /\ callstack' = ButLast(callstack)
    /\ outcome' = [status |-> "returned", error |-> "",
                   files |-> tree_files \o <<Top.gen>>]
    /\ UNCHANGED <<cfg, call, trees, tree_files, loop_i, buildVars, runVars>>

(***************************************************************************)
(* The generated per-tree evaluator, run as C++ runs it, and the walk of   *)
(* the node arrays it is compared with.                                    *)
(***************************************************************************)
FloatInputs == {0, 2, 4}
FeatureVectors == [Features -> FloatInputs]

IsOpen(c) == c.kind \in {"extern_open", "fn_open", "if_open", "else_open", "for_open"}

RECURSIVE MatchClose(_, _, _)
\* the chunk closing the block whose body starts at p
MatchClose(fl, p, depth) ==
    IF p > Len(fl) THEN 0
    ELSE IF IsOpen(fl[p]) THEN MatchClose(fl, p + 1, depth + 1)
    ELSE IF fl[p].kind = "close"
         THEN IF depth = 0 THEN p ELSE MatchClose(fl, p + 1, depth - 1)
    ELSE MatchClose(fl, p + 1, depth)

RECURSIVE MatchOpen(_, _, _)
\* the chunk opening the block closed after p
MatchOpen(fl, p, depth) ==
    IF p < 1 THEN 0
    ELSE IF fl[p].kind = "close" THEN MatchOpen(fl, p - 1, depth + 1)
    ELSE IF IsOpen(fl[p])
         THEN IF depth = 0 THEN p ELSE MatchOpen(fl, p - 1, depth - 1)
    ELSE MatchOpen(fl, p - 1, depth)

RECURSIVE RunFrom(_, _, _)
\* the value returned by the statements of fl from chunk p on input f
RunFrom(fl, p, f) ==
    IF fl[p].kind = "return" THEN LiteralValue(fl[p].lit)
    ELSE IF fl[p].kind = "if_open"
         THEN IF f[fl[p].x] <= LiteralValue(fl[p].lit)
              THEN RunFrom(fl, p + 1, f)
              ELSE RunFrom(fl, MatchClose(fl, p + 1, 0) + 2, f)
    ELSE -1

\* the function of a per-tree unit: extern "C" { double name(float* f) { ...
Evaluate(fl, f) == RunFrom(fl, 3, f)

RECURSIVE Walk(_, _, _)
\* the reference interpretation of the node arrays
Walk(tree, node, f) ==
    IF children_left(tree, node) = TREE_LEAF THEN value(tree, node)[1]
    ELSE IF f[feature(tree, node)] <= threshold(tree, node)
         THEN Walk(tree, children_left(tree, node), f)
         ELSE Walk(tree, children_right(tree, node), f)

Returned == outcome.status = "returned"
Raised == outcome.status = "raised"

(***************************************************************************)
(* C1.  For every well-formed tree and every feature vector, the evaluator *)
(* emitted by code_gen_tree returns what the reference walk of the node    *)
(* arrays returns; a root leaf gives a constant function.                  *)
(***************************************************************************)
C1_GoldenModel ==
    (call.fn = "code_gen_tree" /\ Returned /\ WellFormed(trees[1])) =>
        \A f \in FeatureVectors :
            Evaluate(gens[outcome.files[1]].file, f) = Walk(trees[1], 0, f)

(***************************************************************************)
(* C5.  code_gen_tree never returns an evaluator for a tree with a leaf    *)
(* that has no single scalar value, or with a non-leaf whose right child   *)
(* is the leaf sentinel.                                                   *)
(***************************************************************************)
C5_FailsFastOnMalformed ==
    (call.fn = "code_gen_tree" /\ Returned) =>
        ScalarLeaves(trees[1]) /\ NoMissingChild(trees[1])

(***************************************************************************)
(* C9.  The generator's depth is never negative and equals the number of   *)
(* open bracketed blocks; every chunk is written at that depth, a closing  *)
(* line at the depth of its opening line; the assertion of bracketed never *)
(* fails; the depth is 0 when generation returns.                          *)
(***************************************************************************)
RECURSIVE OpenBlocks(_, _)
\* the with-blocks on generator g that the frames of stack have open
OpenBlocks(stack, g) ==
    IF stack = <<>> THEN 0
    ELSE (IF Head(stack).gen = g THEN Len(Head(stack).withs) ELSE 0)
         + OpenBlocks(Tail(stack), g)

ClosedAtOpeningDepth(fl) ==
    \A k \in 1 .. Len(fl) :
        fl[k].kind = "close" =>
            /\ MatchOpen(fl, k - 1, 0) # 0
            /\ fl[MatchOpen(fl, k - 1, 0)].ind = fl[k].ind

C9_DepthInvariant ==
    /\ outcome.error # "AssertionError in bracketed"
    /\ \A g \in DOMAIN gens :
        /\ gens[g].indent >= 0
        /\ ~Raised => gens[g].indent = OpenBlocks(callstack, g)
        /\ Returned => gens[g].indent = 0
        /\ ClosedAtOpeningDepth(gens[g].file)

C9_WrittenAtDepth ==
    \A g \in DOMAIN gens' :
        LET before == IF g \in DOMAIN gens THEN Len(gens[g].file) ELSE 0
        IN  \A k \in (before + 1) .. Len(gens'[g].file) :
                gens'[g].file[k].ind =
                    Min(OpenBlocks(callstack, g), OpenBlocks(callstack', g))

C9_EmitterDepth == [](C9_DepthInvariant) /\ [][~Raised' => C9_WrittenAtDepth]_vars

C9_Witness ==
    /\ Returned
    /\ call.fn = "code_gen_ensemble"
    /\ \E g \in DOMAIN gens : \E k \in 1 .. Len(gens[g].file) :
           gens[g].file[k].kind = "else_open" /\ gens[g].file[k].ind = 2
    /\ \E k \in 1 .. Len(gens[1].file) :
           gens[1].file[k].kind = "for_open" /\ gens[1].file[k].ind = 2

(***************************************************************************)
(* compile_code_to_object: lines 221-269, with _compile: lines 201-212 and *)
(* _call: lines 215-218.  It is handed the files code_gen_ensemble         *)
(* returned.  A temporary file is a record of temps; a toolchain process   *)
(* runs from its start to its exit, whose status the toolchain decides.    *)
(***************************************************************************)
Windows == cfg.system = "Windows"

\* the temporary file left open on every platform
NamedTemporaryFile_LeftOpen(suffix) ==
    [suffix |-> suffix, delete |-> cfg.delete_files, closed |-> FALSE,
     unlinks |-> 0, lines |-> <<>>]

\* tempfile.NamedTemporaryFile(..., delete=delete_files), closed at once on Windows
NamedTemporaryFile(suffix) ==
    [suffix |-> suffix, delete |-> cfg.delete_files, closed |-> Windows,
     unlinks |-> 0, lines |-> <<>>]

\* "-fopenmp" if OPENMP_SUPPORT else ""
OpenMPFlag == cfg.OPENMP_SUPPORT

NoJob == [state |-> "pending", o_f |-> 0, calls |-> 0, fopenmp |-> FALSE, exit |-> -1]
NoLink ==
    [calls |-> 0, inputs |-> <<>>, list |-> 0, output |-> 0, fopenmp |-> FALSE,
     exit |-> -1]

JobsIn(state) == {t \in DOMAIN jobs : jobs[t].state = state}

\* lines 224-230: the files are closed on Windows, then handed to Parallel
BuildStart ==
    /\ bpc = "idle"
    /\ Returned
    /\ call.fn = "code_gen_ensemble"
    /\ n_jobs' \in 1 .. MaxJobs
    /\ src' = [k \in 1 .. Len(outcome.files) |->
                  [gen |-> outcome.files[k], closed |-> Windows, unlinks |-> 0]]
    /\ jobs' = [k \in 1 .. Len(outcome.files) |-> NoJob]
    /\ bpc' = "parallel"
    /\ UNCHANGED <<cfg, genVars, temps, link, runVars>>

\* _compile without its check of the compiler
CompilerMissing_Unchecked == FALSE

\* line 202
CompilerMissing == cfg.CXX_COMPILER = None

\* a pool that starts every call at once
WorkerFree_Unbounded == TRUE

\* Parallel(n_jobs=n_jobs): a worker is free
WorkerFree == Cardinality(JobsIn("running")) < n_jobs

\* lines 232-233 and 201-211: the next _compile call starts on a free worker;
\* it raises without a compiler, else makes its object file and starts the
\* compiler on the source
JobStart ==
    /\ bpc = "parallel"
    /\ JobsIn("pending") # {}
    /\ WorkerFree
    /\ n_jobs = 1 => JobsIn("failed") = {}
    /\ LET t == CHOOSE k \in JobsIn("pending") : \A j \in JobsIn("pending") : k <= j
       IN  IF CompilerMissing
           THEN /\ jobs' = [jobs EXCEPT ![t].state = "failed"]
                /\ UNCHANGED temps
           ELSE /\ temps' = Append(temps, NamedTemporaryFile(".o"))
                /\ jobs' = [jobs EXCEPT ![t] =
                       [state |-> "running", o_f |-> Len(temps) + 1,
                        calls |-> jobs[t].calls + 1, fopenmp |-> OpenMPFlag,
                        exit |-> -1]]
    /\ UNCHANGED <<cfg, genVars, n_jobs, bpc, src, link, runVars>>

\* lines 211-212 and 217: the compiler exits; check_call raises on a status
\* other than 0, else _compile returns the object file
JobExit ==
    /\ \E t \in JobsIn("running"), status \in {0, 1} :
           jobs' = [jobs EXCEPT ![t].exit = status,
                                ![t].state = IF status = 0 THEN "done" ELSE "failed"]
    /\ UNCHANGED <<cfg, genVars, n_jobs, bpc, src, temps, link, runVars>>

\* lines 232-233: the exception of a failed call leaves compile_code_to_object
ParallelRaise ==
    /\ bpc = "parallel"
    /\ JobsIn("failed") # {}
    /\ bpc' = "raised"
    /\ UNCHANGED <<cfg, genVars, n_jobs, src, jobs, temps, link, runVars>>

\* a Parallel that returns once every call has ended, failed or not
AllCompiled_IgnoringFailures == JobsIn("done") \cup JobsIn("failed") = DOMAIN jobs

\* Parallel returns once every call has returned its object file
AllCompiled == JobsIn("done") = DOMAIN jobs

\* o_files, in the order of files
o_files == [k \in DOMAIN jobs |-> jobs[k].o_f]

\* lines 246-252, the file on Windows that lists the object files, one per line
ListOfFiles == [NamedTemporaryFile("list") EXCEPT !.lines = o_files, !.closed = TRUE]

\* lines 232-255 and 264-267: Parallel returns o_files; the library file is
\* made; the linker is started on the object files, named in a list file on
\* Windows
LinkStart ==
    /\ bpc = "parallel"
    /\ AllCompiled
    /\ LET so_f == Len(temps) + 1
           withSo == Append(temps, NamedTemporaryFile(".so"))
       IN  IF Windows
           THEN /\ temps' = Append(withSo, ListOfFiles)
                /\ link' = [calls |-> link.calls + 1, inputs |-> <<>>,
                            list |-> so_f + 1, output |-> so_f,
                            fopenmp |-> OpenMPFlag, exit |-> -1]
           ELSE /\ temps' = withSo
                /\ link' = [calls |-> link.calls + 1, inputs |-> o_files,
                            list |-> 0, output |-> so_f,
                            fopenmp |-> OpenMPFlag, exit |-> -1]
    /\ bpc' = "linking"
    /\ UNCHANGED <<cfg, genVars, n_jobs, src, jobs, runVars>>

\* os.unlink of each file of ids
Unlink(files, ids) ==
    [k \in DOMAIN files |->
        IF k \in ids THEN [files[k] EXCEPT !.unlinks = @ + 1] ELSE files[k]]

\* lines 258-262: the object files, the source files and the list file
CleanupTemps == Unlink(temps, {o_files[k] : k \in DOMAIN o_files} \cup {link.list})

CleanupSources == Unlink(src, DOMAIN src)

\* lines 253-269: the linker exits; a status other than 0 raises; else, on
\* Windows, the files are removed, and so_f is returned
LinkExit ==
    /\ bpc = "linking"
    /\ \E status \in {0, 1} :
        /\ link' = [link EXCEPT !.exit = status]
        /\ IF status # 0
           THEN /\ bpc' = "raised"
                /\ UNCHANGED <<temps, src>>
           ELSE /\ bpc' = "returned"
                /\ IF Windows
                   THEN /\ temps' = CleanupTemps
                        /\ src' = CleanupSources
                   ELSE UNCHANGED <<temps, src>>
    /\ UNCHANGED <<cfg, genVars, n_jobs, jobs, runVars>>

NextBuild ==
    \/ BuildStart
    \/ JobStart
    \/ JobExit
    \/ ParallelRaise
    \/ LinkStart
    \/ LinkExit

NextGen ==
    \/ TreeOpenExtern
    \/ TreeOpenFn
    \/ RecurLeaf
    \/ RecurOpenIf
    \/ RecurCloseIf
    \/ RecurOpenElse
    \/ RecurCloseElse
    \/ TreeCloseFn
    \/ TreeReturn
    \/ EnsembleStart
    \/ EnsembleGenTree
    \/ EnsembleHeader
    \/ EnsembleDeclare
    \/ EnsembleTable
    \/ EnsembleLoopOpen
    \/ EnsembleIncrement
    \/ EnsembleLoopClose
    \/ EnsembleCloseFn
    \/ EnsembleReturn

(***************************************************************************)
(* C3 as amended.  Without OpenMP support the combiner unit has no         *)
(* parallel-runtime include, which is written only under OPENMP_SUPPORT;   *)
(* the parallel-for pragma is written in both cases, once, directly before *)
(* the single loop over the N trees.                                       *)
(***************************************************************************)
HasKind(fl, kind) == \E k \in 1 .. Len(fl) : fl[k].kind = kind
CountKind(fl, kind) == Cardinality({k \in 1 .. Len(fl) : fl[k].kind = kind})

InEnsemble == call.fn = "code_gen_ensemble" /\ gens # <<>>
Combiner == gens[1].file

C3_IncludeOnlyWithOpenMP ==
    InEnsemble =>
        /\ HasKind(Combiner, "include_omp") => cfg.OPENMP_SUPPORT
        /\ Returned =>
            /\ HasKind(Combiner, "include_omp") <=> cfg.OPENMP_SUPPORT
            /\ CountKind(Combiner, "pragma_omp") = 1
            /\ CountKind(Combiner, "for_open") = 1
            /\ \A k \in 1 .. Len(Combiner) :
                   Combiner[k].kind = "pragma_omp" =>
                       /\ Combiner[k + 1].kind = "for_open"
                       /\ Combiner[k + 1].x = Len(trees)

C3_Witness ==
    InEnsemble /\ Returned /\ ~cfg.OPENMP_SUPPORT /\ Len(trees) = MaxTrees

(***************************************************************************)
(* C3 as stated.  Without OpenMP support the combiner unit has neither the *)
(* parallel-for pragma nor the include; the pragma is written only under   *)
(* OPENMP_SUPPORT.                                                         *)
(***************************************************************************)
C3_NoPragmaWithoutOpenMP ==
    InEnsemble =>
        /\ HasKind(Combiner, "pragma_omp") => cfg.OPENMP_SUPPORT
        /\ HasKind(Combiner, "include_omp") => cfg.OPENMP_SUPPORT

(***************************************************************************)
(* C8.  For N >= 0 well-formed trees code_gen_ensemble returns N+1 units,  *)
(* the per-tree units in tree order and the combiner last; unit i defines  *)
(* one function, and the combiner declares exactly these N functions and   *)
(* holds the function of unit i at index i of a table of size N.           *)
(***************************************************************************)
DefinedNames(fl) == {fl[k].name : k \in {j \in 1 .. Len(fl) : fl[j].kind = "fn_open"}}
DeclaredNames(fl) == {fl[k].name : k \in {j \in 1 .. Len(fl) : fl[j].kind = "declare"}}

UnitsAndSymbols ==
    LET N == Len(trees)
        units == outcome.files
    IN  /\ Returned
        /\ Len(units) = N + 1
        /\ \A i \in 1 .. N :
               /\ CountKind(gens[units[i]].file, "fn_open") = 1
               /\ DefinedNames(gens[units[i]].file) = {FnName(i - 1)}
        /\ LET cmb == gens[units[N + 1]].file
           IN  /\ DefinedNames(cmb) = {FnName(-1)}
               /\ CountKind(cmb, "declare") = N
               /\ DeclaredNames(cmb) = {FnName(i - 1) : i \in 1 .. N}
               /\ CountKind(cmb, "funcs") = 1
               /\ \A k \in 1 .. Len(cmb) :
                      cmb[k].kind = "funcs" =>
                          /\ cmb[k].x = N
                          /\ cmb[k].names = [i \in 1 .. N |-> FnName(i - 1)]

C8_UnitsAndSymbols ==
    (/\ call.fn = "code_gen_ensemble"
     /\ outcome.status # "running"
     /\ \A i \in 1 .. Len(trees) : WellFormed(trees[i])) => UnitsAndSymbols

(***************************************************************************)
(* C2.  Once the compile job of any source unit has failed, the link is    *)
(* never invoked and no shared library is created or returned.             *)
(***************************************************************************)
TempsOf(suffix) == {k \in DOMAIN temps : temps[k].suffix = suffix}

C2_CompileFailureAborts ==
    JobsIn("failed") # {} =>
        /\ bpc \in {"parallel", "raised"}
        /\ link.calls = 0
        /\ TempsOf(".so") = {}

C2_Witness ==
    /\ bpc = "raised"
    /\ n_jobs = MaxJobs
    /\ jobs[Len(jobs)].exit = 1
    /\ jobs[1].state = "done"

(***************************************************************************)
(* C6 as amended.  Without a compiler (CXX_COMPILER is None) the first     *)
(* compile job of compile_code_to_object raises: no object, list or        *)
(* library file is created, no toolchain process is started and nothing is *)
(* returned, for every worker count; code_gen_ensemble, which does not     *)
(* look at the compiler, has generated its N+1 source units before.        *)
(***************************************************************************)
C6_NoBuildWithoutCompiler ==
    cfg.CXX_COMPILER = None =>
        /\ temps = <<>>
        /\ \A t \in DOMAIN jobs : jobs[t].calls = 0 /\ jobs[t].state # "running"
        /\ link.calls = 0
        /\ bpc \in {"idle", "parallel", "raised"}
        /\ bpc = "raised" => Len(src) = Len(trees) + 1

C6_Witness ==
    /\ cfg.CXX_COMPILER = None
    /\ bpc = "raised"
    /\ n_jobs = MaxJobs
    /\ Len(src) = MaxTrees + 1

(***************************************************************************)
(* C6 as stated.  Without a compiler the pipeline never starts: no source  *)
(* unit is generated, no temporary file created, no process started.       *)
(***************************************************************************)
C6_NothingWithoutCompiler ==
    (cfg.CXX_COMPILER = None /\ call.fn = "code_gen_ensemble") =>
        /\ gens = <<>>
        /\ temps = <<>>
        /\ \A t \in DOMAIN jobs : jobs[t].calls = 0
        /\ link.calls = 0

(***************************************************************************)
(* C7.  With delete-on-close disabled (Windows) every file is closed       *)
(* before the process that reads or writes it starts, none is removed      *)
(* before the last process using it has ended, and after a successful run  *)
(* every source, every object and the list file has been removed exactly   *)
(* once while the library remains.                                         *)
(***************************************************************************)
Objects == {jobs[t].o_f : t \in DOMAIN jobs} \ {0}

C7_ExplicitDeletion ==
    ~cfg.delete_files =>
        /\ \A t \in JobsIn("running") :
               /\ src[t].closed /\ src[t].unlinks = 0
               /\ temps[jobs[t].o_f].closed /\ temps[jobs[t].o_f].unlinks = 0
        /\ bpc = "linking" =>
               /\ \A k \in Objects \cup {link.list, link.output} :
                      temps[k].closed /\ temps[k].unlinks = 0
               /\ link.list \in TempsOf("list")
        /\ \A t \in DOMAIN src :
               src[t].unlinks > 0 => jobs[t].state = "done" /\ jobs[t].exit = 0
        /\ \A k \in DOMAIN temps :
               temps[k].unlinks > 0 => bpc = "returned" /\ link.exit = 0
        /\ bpc = "returned" =>
               /\ \A t \in DOMAIN src : src[t].unlinks = 1
               /\ \A k \in DOMAIN temps :
                      temps[k].unlinks = IF temps[k].suffix = ".so" THEN 0 ELSE 1
               /\ Cardinality(TempsOf(".so")) = 1
               /\ Cardinality(TempsOf("list")) = 1
               /\ Cardinality(TempsOf(".o")) = Len(src)

C7_Witness ==
    /\ ~cfg.delete_files
    /\ bpc = "returned"
    /\ n_jobs = MaxJobs
    /\ Len(src) = MaxTrees + 1

(***************************************************************************)
(* C10.  At most n_jobs compile jobs run at once; each source unit is      *)
(* compiled once, into an object file of its own; the link starts only     *)
(* when every compile job has returned, is invoked once, and is handed     *)
(* exactly the N+1 object files in the order of the source units.          *)
(***************************************************************************)
LinkedObjects == IF link.list # 0 THEN temps[link.list].lines ELSE link.inputs

C10_CompileThenLinkOnce ==
    /\ Cardinality(JobsIn("running")) <= n_jobs
    /\ \A t \in DOMAIN jobs : jobs[t].calls <= 1
    /\ \A t, u \in DOMAIN jobs :
           (t # u /\ jobs[t].o_f # 0) => jobs[t].o_f # jobs[u].o_f
    /\ link.calls <= 1
    /\ (link.calls > 0 \/ bpc \in {"linking", "returned"}) =>
           /\ link.calls = 1
           /\ JobsIn("pending") \cup JobsIn("running") = {}
           /\ \A t \in DOMAIN jobs : jobs[t].calls = 1 /\ jobs[t].exit = 0
           /\ Len(LinkedObjects) = Len(trees) + 1
           /\ LinkedObjects = [t \in DOMAIN jobs |-> jobs[t].o_f]
           /\ \A t \in DOMAIN jobs : temps[jobs[t].o_f].suffix = ".o"

C10_Witness ==
    /\ bpc = "returned"
    /\ n_jobs = MaxJobs
    /\ Len(jobs) = MaxTrees + 1

\* the scalar arguments of an ensemble: weight and initial value
EnsembleArgs == {<<1, 0>>, <<2, 3>>}

\* code_gen_tree(tree) called with the default name and no generator
InitTree ==
    /\ call = [fn |-> "code_gen_tree", individual_learner_weight |-> 0,
               initial_value |-> 0]
    /\ trees \in {<<t>> : t \in Trees}
    /\ callstack = <<[Frame("code_gen_tree", "start", 0, 0) EXCEPT !.tree = 1]>>

\* the trees of an ensemble: a leaf, a leaf without a scalar value, a split
EnsembleTrees ==
    {<<LeafRow(<<1>>)>>, <<LeafRow(<<1, 4>>)>>,
     <<SplitRow(1, 2, 0, 3), LeafRow(<<1>>), LeafRow(<<4>>)>>}

\* code_gen_ensemble(trees, individual_learner_weight, initial_value)
InitEnsemble ==
    /\ call \in {[fn |-> "code_gen_ensemble", individual_learner_weight |-> a[1],
                   initial_value |-> a[2]] : a \in EnsembleArgs}
    /\ trees \in UNION {[1 .. n -> EnsembleTrees] : n \in 0 .. MaxTrees}
    /\ callstack = <<Frame("code_gen_ensemble", "start", 0, 0)>>

(***************************************************************************)
(* The combiner that lines 184-197 generate, at run time:                  *)
(*   double result = <initial_value>;                                      *)
(*   #pragma omp parallel for num_threads(n_jobs) schedule(static)         *)
(*           private(i) reduction(+:result)                                *)
(*   for(int i=0; i<N; ++i) { result += funcs[i](f) * <weight>; }          *)
(*   return result;                                                        *)
(* Built with -fopenmp (line 211) the loop runs on a team of at most       *)
(* n_jobs threads, each with a private result starting at 0 and a          *)
(* contiguous chunk of the iterations; the private results are added to    *)
(* result as the threads leave the loop.  Built without, the pragma is     *)
(* ignored and one thread adds to result itself.                           *)
(***************************************************************************)
N == Len(outs)

\* the term of iteration i (from 0): funcs[i](f) * weight
Term(i) == outs[i + 1] * LiteralValue(DoubleLiteral(call.individual_learner_weight))

\* reduction(+:result): a private result joins the shared one
ReductionCombine_Overwrite(shared, private) == private

ReductionCombine(shared, private) == shared + private

\* schedule(static): the iterations cut into one contiguous chunk per thread
StaticChunks(n, T) ==
    {c \in [1 .. T -> [lo : 0 .. n, hi : 0 .. n]] :
        /\ c[1].lo = 0
        /\ c[T].hi = n
        /\ \A t \in 1 .. T : c[t].lo <= c[t].hi
        /\ \A t \in 1 .. (T - 1) : c[t].hi = c[t + 1].lo}

Thread(lo, hi, private) ==
    [next |-> lo, hi |-> hi, acc |-> 0, private |-> private, joined |-> FALSE]

\* line 188 and the entry of the loop
RunEnter ==
    /\ rpc = "entry"
    /\ result' = LiteralValue(DoubleLiteral(call.initial_value))
    /\ IF OpenMPFlag
       THEN \E T \in 1 .. omp_jobs : \E c \in StaticChunks(N, T) :
                team' = [t \in 1 .. T |-> Thread(c[t].lo, c[t].hi, TRUE)]
       ELSE team' = <<Thread(0, N, FALSE)>>
    /\ rpc' = "loop"
    /\ UNCHANGED <<cfg, genVars, buildVars, outs, omp_jobs, evaluated>>

\* line 192, one iteration of one thread
RunIteration ==
    /\ rpc = "loop"
    /\ \E t \in DOMAIN team :
        /\ team[t].next < team[t].hi
        /\ evaluated' = [evaluated EXCEPT ![team[t].next + 1] = @ + 1]
        /\ IF team[t].private
           THEN /\ team' = [team EXCEPT ![t].acc = @ + Term(team[t].next),
                                         ![t].next = @ + 1]
                /\ UNCHANGED result
           ELSE /\ team' = [team EXCEPT ![t].next = @ + 1]
                /\ result' = result + Term(team[t].next)
    /\ UNCHANGED <<cfg, genVars, buildVars, outs, omp_jobs, rpc>>

\* a thread leaves the loop: its private result is added to the shared one
RunJoin ==
    /\ rpc = "loop"
    /\ \E t \in DOMAIN team :
        /\ team[t].next = team[t].hi
        /\ ~team[t].joined
        /\ team' = [team EXCEPT ![t].joined = TRUE]
        /\ result' = IF team[t].private
                     THEN ReductionCombine(result, team[t].acc)
                     ELSE result
    /\ UNCHANGED <<cfg, genVars, buildVars, outs, omp_jobs, rpc, evaluated>>

\* line 197
RunReturn ==
    /\ rpc = "loop"
    /\ \A t \in DOMAIN team : team[t].joined
    /\ rpc' = "done"
    /\ UNCHANGED <<cfg, genVars, buildVars, outs, omp_jobs, result, team, evaluated>>

NextRun ==
    \/ RunEnter
    \/ RunIteration
    \/ RunJoin
    \/ RunReturn

(***************************************************************************)
(* C4.  evaluate(f, k) returns initial_value plus the sum over the trees   *)
(* of funcs[i](f) * weight, every tree evaluated exactly once, whatever    *)
(* the team, the chunks and the interleaving; so it equals the sequential  *)
(* evaluate(f, 1).                                                         *)
(***************************************************************************)
RECURSIVE SumOuts(_)
SumOuts(n) == IF n = 0 THEN 0 ELSE outs[n] + SumOuts(n - 1)

C4_ReductionSum ==
    rpc = "done" =>
        /\ result = call.initial_value + SumOuts(N) * call.individual_learner_weight
        /\ \A i \in 1 .. N : evaluated[i] = 1

C4_Witness ==
    /\ rpc = "done"
    /\ Len(team) = MaxThreads
    /\ N = MaxRunTrees
    /\ \A t \in DOMAIN team : team[t].hi > 0 /\ team[t].acc > 0
    /\ result > call.initial_value

IdleGen ==
    /\ gens = <<>>
    /\ tree_files = <<>>
    /\ loop_i = Unbound
    /\ outcome = [status |-> "running", error |-> "", files |-> <<>>]

IdleBuild ==
    /\ n_jobs = 0
    /\ bpc = "idle"
    /\ src = <<>>
    /\ jobs = <<>>
    /\ temps = <<>>
    /\ link = NoLink

IdleRun ==
    /\ outs = <<>>
    /\ omp_jobs = 0
    /\ rpc = "idle"
    /\ result = 0
    /\ team = <<>>
    /\ evaluated = <<>>

\* generation, then the build of what code_gen_ensemble returned
Init ==
    /\ cfg \in ModuleConfigs
    /\ InitTree \/ InitEnsemble
    /\ IdleGen
    /\ IdleBuild
    /\ IdleRun

Next == NextGen \/ NextBuild

Spec == Init /\ [][Next]_vars

TreeOutputs == {0, 1, 4}

\* a call evaluate(f, n_jobs) of a library built from N >= 1 trees
InitRun ==
    /\ cfg \in {m \in ModuleConfigs : m.CXX_COMPILER # None}
    /\ call \in {[fn |-> "evaluate", individual_learner_weight |-> a[1],
                   initial_value |-> a[2]] : a \in EnsembleArgs}
    /\ trees = <<>>
    /\ callstack = <<>>
    /\ IdleGen
    /\ IdleBuild
    /\ outs \in UNION {[1 .. n -> TreeOutputs] : n \in 1 .. MaxRunTrees}
    /\ omp_jobs \in 1 .. MaxThreads
    /\ rpc = "entry"
    /\ result = 0
    /\ team = <<>>
    /\ evaluated = [i \in 1 .. Len(outs) |-> 0]

SpecRun == InitRun /\ [][NextRun]_vars

====
